---- MODULE Spec2Model ----
(***************************************************************************)
(* A model of src/style-installer.js (AMP runtime): installation of style  *)
(* elements under a css root (installStylesForDoc, installStylesLegacy,    *)
(* insertStyleElement, the style map, the css transformer and the          *)
(* styleLoaded poll), and the body visibility flow (makeBodyVisible,       *)
(* bodyAlwaysVisible).                                                     *)
(*                                                                         *)
(* Elements are numbered in creation order: element n is nodes[n].  The    *)
(* css root's children are the sequence `children` of element numbers.     *)
(***************************************************************************)
EXTENDS Naturals, Sequences, FiniteSets, TLC

VARIABLES
  nodes,          \* every element of the document, by number: [kind, attrName, attrValue, text]
  children,       \* cssRoot's child list, first to last
  styleMapSet,    \* whether cssRoot[STYLE_MAP_PROP] has been created
  styleMap,       \* cssRoot[STYLE_MAP_PROP]: key -> element (its DOMAIN: the keys set)
  transformer,    \* cssRoot[TRANSFORMER_PROP]: NoTransformer, or the function's name
  sheets,         \* the owner nodes of root.styleSheets
  pollers,        \* one entry per install call that passed a cb: [style, interval, fired]
  ninit,          \* how many elements the server rendered (the elements after them are created by install)
  last            \* the last install call: [css, cb, ret, created, threw, transformed]

VARIABLES
  sentinel,       \* win[bodyVisibleSentinel]
  bodyExists,     \* whether doc.body is there
  bodyStyle,      \* the body's inline style: [opacity, visibility, animation]
  waiters,        \* the callbacks waitForBody holds until the body is there: their opt_waitForServices
  services,       \* the promise chains on waitForServices(win): [state, length]
  effects,        \* how often each collaborator has been called
  uncaught,       \* errors thrown out of a deferred callback or a promise reaction
  mbvCalls,       \* makeBodyVisible calls made so far
  outcome,        \* how the last makeBodyVisible call ended: "none", "returned", "threw"
  first,          \* which of the two was called first on the window: "none", "bav", "mbv"
  bavFlipped      \* whether a bodyAlwaysVisible call turned the sentinel from false to true

styleVars == <<nodes, children, styleMapSet, styleMap, transformer, sheets,
               pollers, ninit, last>>

bodyVars == <<sentinel, bodyExists, bodyStyle, waiters, services, effects,
              uncaught, mbvCalls, outcome, first, bavFlipped>>

vars == <<styleVars, bodyVars>>

------------------------------------------------------------------------------
(* Bounds of the model. *)
MaxInit == 2
MaxNew == 2
MaxPollers == 2
MaxMbvCalls == 3

(* null / undefined: no element. *)
Null == 0
(* A falsy opt_ext ('' or undefined), which `opt_ext || null` makes null. *)
NoExt == ""
(* A null key. *)
NoKey == ""
(* cssRoot[TRANSFORMER_PROP] undefined. *)
NoTransformer == ""

TRANSFORMER_PROP == "__AMP_CSS_TR"
STYLE_MAP_PROP == "__AMP_CSS_SM"

(* The inputs the calls are drawn from. *)
CssTexts == {"a", "b"}
ExtNames == {NoExt, "amp-custom", "amp-keyframes", "amp-foo", "amp-bar"}
Transformers == {"p", "q"}

------------------------------------------------------------------------------
(* The DOM the code works on. *)

StyleElement(name, value, text) ==
  [kind |-> "style", attrName |-> name, attrValue |-> value, text |-> text]

(* What a server may have rendered under the root before the runtime runs. *)
ServerNodes ==
  { StyleElement("amp-runtime", "", "r0"),
    StyleElement("amp-extension", "amp-foo", "f0"),
    StyleElement("amp-custom", "", "c0"),
    [kind |-> "meta", attrName |-> "charset", attrValue |-> "utf-8", text |-> ""] }

RECURSIVE SeqsUpTo(_, _)
SeqsUpTo(S, n) ==
  IF n = 0 THEN {<<>>}
  ELSE LET shorter == SeqsUpTo(S, n - 1)
       IN  shorter \cup {Append(s, e) : s \in shorter, e \in S}

NoDuplicates(s) == \A i, j \in 1..Len(s) : i # j => s[i] # s[j]

InitialContents == {s \in SeqsUpTo(ServerNodes, MaxInit) : NoDuplicates(s)}

Range(seq) == {seq[i] : i \in 1..Len(seq)}

IndexOf(seq, e) == CHOOSE i \in 1..Len(seq) : seq[i] = e

(* Element.lastChild *)
lastChild(kids) == IF kids = <<>> THEN Null ELSE kids[Len(kids)]

(* The selector `style[${key}]` against one element: a style element whose
   attribute is present (key without '=') or has the value (key 'name=value'). *)
MatchesSelector(node, key) ==
  /\ node.kind = "style"
  /\ \/ key = node.attrName
     \/ key = node.attrName \o "=" \o node.attrValue

(* cssRoot.querySelector(`style[${key}]`): the first match in document order. *)
querySelector(ns, kids, key) ==
  LET hits == {i \in 1..Len(kids) : MatchesSelector(ns[kids[i]], key)}
  IN  IF hits = {} THEN Null
      ELSE kids[CHOOSE i \in hits : \A j \in hits : i <= j]

(* dom.insertAfterOrAtStart(root, element, after): after `after`, or first. *)
insertAfterOrAtStart(kids, element, after) ==
  IF after = Null THEN <<element>> \o kids
  ELSE LET i == IndexOf(kids, after)
       IN  SubSeq(kids, 1, i) \o <<element>> \o SubSeq(kids, i + 1, Len(kids))

------------------------------------------------------------------------------
(* The style map. *)

MapGet(m, key) == IF key \in DOMAIN m THEN m[key] ELSE Null

MapSet(m, key, v) ==
  [k \in DOMAIN m \cup {key} |-> IF k = key THEN v ELSE m[k]]

(* getExistingStyleElement: [existing, styleMap], the map as the call leaves it. *)
getExistingStyleElementMapOnly(ns, kids, m, key) ==
  [existing |-> MapGet(m, key), styleMap |-> m]

getExistingStyleElement(ns, kids, m, key) ==
  IF MapGet(m, key) # Null
  THEN [existing |-> m[key], styleMap |-> m]
  ELSE LET existing == querySelector(ns, kids, key)
       IN  IF existing # Null
           THEN [existing |-> existing, styleMap |-> MapSet(m, key, existing)]
           ELSE [existing |-> Null, styleMap |-> m]

isExtCssKeyframes(isRuntimeCss, ext) ==
  ~isRuntimeCss /\ ext # NoExt /\ ext # "amp-custom"

isExtCss(isRuntimeCss, ext) ==
  ~isRuntimeCss /\ ext # NoExt /\ ext # "amp-custom" /\ ext # "amp-keyframes"

StyleKey(isRuntimeCss, ext) ==
  IF isRuntimeCss THEN "amp-runtime"
  ELSE IF isExtCss(isRuntimeCss, ext) THEN "amp-extension=" \o ext
  ELSE NoKey

(* The element insertStyleElement creates, with its attribute set. *)
NewStyle(cssText, isRuntimeCss, ext) ==
  IF isRuntimeCss THEN StyleElement("amp-runtime", "", cssText)
  ELSE IF isExtCss(isRuntimeCss, ext) THEN StyleElement("amp-extension", ext, cssText)
  ELSE StyleElement(ext, "", cssText)

(* `if (existing) { return existing; }`: what insertStyleElement leaves and
   returns when the key has an element. *)
ReturnExistingOverwrites(ns, kids, m, existing, cssText) ==
  [threw |-> FALSE, style |-> existing, created |-> FALSE,
   nodes |-> [ns EXCEPT ![existing].text = cssText], children |-> kids, styleMap |-> m]

ReturnExisting(ns, kids, m, existing, cssText) ==
  [threw |-> FALSE, style |-> existing, created |-> FALSE,
   nodes |-> ns, children |-> kids, styleMap |-> m]

(* The element the new style goes after: none for the runtime style, the
   runtime style for an extension style, the last child for the others. *)
AfterElementLastChild(kids, isRuntimeCss, ext, runtime) ==
  IF isRuntimeCss THEN Null ELSE lastChild(kids)

AfterElement(kids, isRuntimeCss, ext, runtime) ==
  IF isRuntimeCss THEN Null
  ELSE IF isExtCss(isRuntimeCss, ext) THEN runtime
  ELSE lastChild(kids)

(* insertStyleElement(cssRoot, cssText, isRuntimeCss, ext): the state it leaves
   and what it returns; threw: dev().assertElement failed (no runtime style). *)
insertStyleElementNoAssert(ns, kids, m, cssText, isRuntimeCss, ext) ==
  LET key == StyleKey(isRuntimeCss, ext)
      found == IF key # NoKey THEN getExistingStyleElement(ns, kids, m, key)
               ELSE [existing |-> Null, styleMap |-> m]
      rt == getExistingStyleElement(ns, kids, found.styleMap, "amp-runtime")
      style == Len(ns) + 1
      m2 == IF isExtCss(isRuntimeCss, ext) THEN rt.styleMap ELSE found.styleMap
  IN  IF found.existing # Null
      THEN ReturnExisting(ns, kids, found.styleMap, found.existing, cssText)
      ELSE [threw |-> FALSE, style |-> style, created |-> TRUE,
            nodes |-> Append(ns, NewStyle(cssText, isRuntimeCss, ext)),
            children |-> insertAfterOrAtStart(
                           kids, style, AfterElement(kids, isRuntimeCss, ext, rt.existing)),
            styleMap |-> IF key # NoKey THEN MapSet(m2, key, style) ELSE m2]

insertStyleElement(ns, kids, m, cssText, isRuntimeCss, ext) ==
  LET key == StyleKey(isRuntimeCss, ext)
      found == IF key # NoKey THEN getExistingStyleElement(ns, kids, m, key)
               ELSE [existing |-> Null, styleMap |-> m]
      rt == getExistingStyleElement(ns, kids, found.styleMap, "amp-runtime")
      style == Len(ns) + 1
      m2 == IF isExtCss(isRuntimeCss, ext) THEN rt.styleMap ELSE found.styleMap
  IN  IF found.existing # Null
      THEN ReturnExisting(ns, kids, found.styleMap, found.existing, cssText)
      ELSE IF isExtCss(isRuntimeCss, ext) /\ rt.existing = Null
      THEN [threw |-> TRUE, style |-> Null, created |-> FALSE,
            nodes |-> ns, children |-> kids, styleMap |-> found.styleMap]
      ELSE [threw |-> FALSE, style |-> style, created |-> TRUE,
            nodes |-> Append(ns, NewStyle(cssText, isRuntimeCss, ext)),
            children |-> insertAfterOrAtStart(
                           kids, style, AfterElement(kids, isRuntimeCss, ext, rt.existing)),
            styleMap |-> IF key # NoKey THEN MapSet(m2, key, style) ELSE m2]

------------------------------------------------------------------------------
(* The css transformer. *)

(* What the registered function t makes of cssText. *)
ApplyTransformer(t, cssText) == t \o "(" \o cssText \o ")"

(* maybeTransform(cssRoot, cssText): the text, and whether the registered
   function was invoked to make it. *)
maybeTransformNever(t, cssText) == [text |-> cssText, invoked |-> FALSE]

maybeTransform(t, cssText) ==
  IF t # NoTransformer
  THEN [text |-> ApplyTransformer(t, cssText), invoked |-> TRUE]
  ELSE [text |-> cssText, invoked |-> FALSE]

------------------------------------------------------------------------------
(* The readiness poll. *)

(* styleLoaded(doc, style): some sheet of doc.styleSheets is owned by style. *)
styleLoaded(sheetOwners, style) == \E owner \in sheetOwners : owner = style

(* The `if (cb) { ... }` tail of both install functions: the cb runs now when
   the style is loaded, and else an interval is set. *)
NotifyWhenLoadedAlwaysPolls(sheetOwners, style) ==
  [style |-> style, interval |-> "active", fired |-> 0]

NotifyWhenLoaded(sheetOwners, style) ==
  IF styleLoaded(sheetOwners, style)
  THEN [style |-> style, interval |-> "none", fired |-> 1]
  ELSE [style |-> style, interval |-> "active", fired |-> 0]

------------------------------------------------------------------------------
NoCall == [css |-> "", cb |-> FALSE, ret |-> Null, created |-> FALSE,
           threw |-> FALSE, transformed |-> FALSE]

InitStyle(contents) ==
  /\ \E content \in contents :
       /\ nodes = content
       /\ ninit = Len(content)
       /\ children = [i \in 1..Len(content) |-> i]
       /\ sheets = {i \in 1..Len(content) : content[i].kind = "style"}
  /\ styleMapSet = FALSE
  /\ styleMap = <<>>
  /\ transformer = NoTransformer
  /\ pollers = <<>>
  /\ last = NoCall

(* The body before the runtime has made it visible: no inline style. *)
HiddenStyle == [opacity |-> "", visibility |-> "", animation |-> ""]

(* What set() gives setStyles. *)
VisibleStyle == [opacity |-> "1", visibility |-> "visible", animation |-> "none"]

Collaborators ==
  {"waitForBody", "waitForServices", "setStyles", "renderStarted", "schedulePass",
   "tick", "flush", "rethrowAsync"}

InitBody(bodyStates) ==
  /\ sentinel = FALSE
  /\ bodyExists \in bodyStates
  /\ bodyStyle = HiddenStyle
  /\ waiters = <<>>
  /\ services = <<>>
  /\ effects = [c \in Collaborators |-> 0]
  /\ uncaught = 0
  /\ mbvCalls = 0
  /\ outcome = "none"
  /\ first = "none"
  /\ bavFlipped = FALSE

Init == InitStyle(InitialContents) /\ InitBody(BOOLEAN)

(* The part both install functions share, given the call's cssText, the text
   handed to insertStyleElement and whether the transformer ran on it.  hostSync:
   whether the host lists a style element it has just been given in
   styleSheets at once (it does unless a style download is pending). *)
Install(cssText, text, transformed, cb, isRuntimeCss, ext, hostSync) ==
  LET r == insertStyleElement(nodes, children, styleMap, text, isRuntimeCss, ext)
      sheetsNow == IF r.created /\ hostSync THEN sheets \cup {r.style} ELSE sheets
  IN  /\ r.created => Len(nodes) < ninit + MaxNew
      /\ (cb /\ ~r.threw) => Len(pollers) < MaxPollers
      /\ nodes' = r.nodes
      /\ children' = r.children
      /\ styleMapSet' = TRUE
      /\ styleMap' = r.styleMap
      /\ sheets' = sheetsNow
      /\ last' = [css |-> cssText, cb |-> cb, ret |-> r.style, created |-> r.created,
                  threw |-> r.threw, transformed |-> transformed]
      /\ pollers' = IF cb /\ ~r.threw
                    THEN Append(pollers, NotifyWhenLoaded(sheetsNow, r.style))
                    ELSE pollers

installStylesForDoc(cssText, cb, opt_isRuntimeCss, opt_ext, hostSync) ==
  /\ LET tr == maybeTransform(transformer, cssText)
     IN  Install(cssText, tr.text, tr.invoked, cb, opt_isRuntimeCss, opt_ext, hostSync)
  /\ UNCHANGED <<transformer, ninit, bodyVars>>

installStylesLegacyTransforms(cssText, cb, opt_isRuntimeCss, opt_ext, hostSync) ==
  installStylesForDoc(cssText, cb, opt_isRuntimeCss, opt_ext, hostSync)

installStylesLegacy(cssText, cb, opt_isRuntimeCss, opt_ext, hostSync) ==
  /\ Install(cssText, cssText, FALSE, cb, opt_isRuntimeCss, opt_ext, hostSync)
  /\ UNCHANGED <<transformer, ninit, bodyVars>>

installCssTransformerRewrites(t) ==
  /\ transformer' = t
  /\ nodes' = [n \in 1..Len(nodes) |->
                IF n > ninit THEN [nodes[n] EXCEPT !.text = ApplyTransformer(t, @)]
                ELSE nodes[n]]
  /\ UNCHANGED <<children, styleMapSet, styleMap, sheets, pollers, ninit, last,
               bodyVars>>

installCssTransformer(t) ==
  /\ transformer' = t
  /\ UNCHANGED <<nodes, children, styleMapSet, styleMap, sheets, pollers, ninit, last,
               bodyVars>>

(* The host lists a style element of the root in styleSheets. *)
HostLoadsStyle(n) ==
  /\ n \in 1..Len(nodes)
  /\ nodes[n].kind = "style"
  /\ n \notin sheets
  /\ sheets' = sheets \cup {n}
  /\ UNCHANGED <<nodes, children, styleMapSet, styleMap, transformer, pollers, ninit, last,
               bodyVars>>

(* One tick of the interval of poller i. *)
PollTickKeepInterval(ps, sheetOwners, i) ==
  IF styleLoaded(sheetOwners, ps[i].style)
  THEN [ps EXCEPT ![i].fired = @ + 1]
  ELSE ps

PollTick(ps, sheetOwners, i) ==
  IF styleLoaded(sheetOwners, ps[i].style)
  THEN [ps EXCEPT ![i].interval = "cleared", ![i].fired = @ + 1]
  ELSE ps

IntervalFires(i) ==
  /\ i \in 1..Len(pollers)
  /\ pollers[i].interval = "active"
  /\ pollers' = PollTick(pollers, sheets, i)
  /\ UNCHANGED <<nodes, children, styleMapSet, styleMap, transformer, sheets, ninit, last,
               bodyVars>>

------------------------------------------------------------------------------
(* Body visibility.  The operators below work on a record S of the state
   makeBodyVisible reads and writes, with threw: an exception is on its way
   out.  A collaborator's behaviour is an input: "ok", or how it throws. *)

BodyState ==
  [sentinel |-> sentinel, bodyStyle |-> bodyStyle, waiters |-> waiters,
   services |-> services, effects |-> effects, threw |-> FALSE]

Called(S, c) == [S EXCEPT !.effects[c] = @ + 1]

Throw(S) == [S EXCEPT !.threw = TRUE]

(* renderStartedNoInline(doc): whatever Services.resourcesForDoc(doc) or
   renderStarted() throws is swallowed. *)
renderStartedNoInline(S, rs) ==
  IF rs = "lookupThrows" THEN S ELSE Called(S, "renderStarted")

(* set(): the sentinel, setStyles on the body (assertElement throws when
   there is none), renderStartedNoInline. *)
setSentinelOnly(S, exists, rs) ==
  LET S1 == [S EXCEPT !.sentinel = TRUE]
  IN  IF ~exists THEN Throw(S1) ELSE renderStartedNoInline(S1, rs)

set(S, exists, rs) ==
  LET S1 == [S EXCEPT !.sentinel = TRUE]
  IN  IF ~exists THEN Throw(S1)
      ELSE renderStartedNoInline(
             Called([S1 EXCEPT !.bodyStyle = VisibleStyle], "setStyles"), rs)

(* The callback makeBodyVisible hands to waitForBody. *)
bodyCallbackNoCheck(S, flag, exists, wfs, rs) ==
  LET S1 == [S EXCEPT !.sentinel = TRUE]
  IN  IF flag
      THEN IF wfs = "throws" THEN Throw(Called(S1, "waitForServices"))
           ELSE [Called(S1, "waitForServices") EXCEPT
                   !.services = Append(@, [state |-> "pending", length |-> 0])]
      ELSE set(S1, exists, rs)

bodyCallbackChecksWithFlagOnly(S, flag, exists, wfs, rs) ==
  IF S.sentinel /\ flag THEN S
  ELSE LET S1 == [S EXCEPT !.sentinel = TRUE]
       IN  IF flag
           THEN IF wfs = "throws" THEN Throw(Called(S1, "waitForServices"))
                ELSE [Called(S1, "waitForServices") EXCEPT
                        !.services = Append(@, [state |-> "pending", length |-> 0])]
           ELSE set(S1, exists, rs)

bodyCallback(S, flag, exists, wfs, rs) ==
  IF S.sentinel THEN S
  ELSE LET S1 == [S EXCEPT !.sentinel = TRUE]
       IN  IF flag
           THEN IF wfs = "throws" THEN Throw(Called(S1, "waitForServices"))
                ELSE [Called(S1, "waitForServices") EXCEPT
                        !.services = Append(@, [state |-> "pending", length |-> 0])]
           ELSE set(S1, exists, rs)

(* dom.waitForBody(doc, callback): the callback runs at once when the body is
   there and is kept until it is otherwise. *)
waitForBody(S, flag, exists, wfb, wfs, rs) ==
  IF wfb = "throws" THEN Throw(Called(S, "waitForBody"))
  ELSE IF exists THEN bodyCallback(Called(S, "waitForBody"), flag, exists, wfs, rs)
  ELSE [Called(S, "waitForBody") EXCEPT !.waiters = Append(@, flag)]

(* The try and its catch: set(), which may itself throw, then rethrowAsync(e). *)
tryWaitForBody(S, flag, exists, wfb, wfs, rs) ==
  LET tried == waitForBody(S, flag, exists, wfb, wfs, rs)
      forced == set([tried EXCEPT !.threw = FALSE], exists, rs)
  IN  IF ~tried.threw THEN tried
      ELSE IF forced.threw THEN forced
      ELSE Called(forced, "rethrowAsync")

(* makeBodyVisible(doc, opt_waitForServices) on a doc that has a defaultView. *)
makeBodyVisibleNoGuard(S, flag, exists, wfb, wfs, rs) ==
  tryWaitForBody(S, flag, exists, wfb, wfs, rs)

makeBodyVisibleGuardsWithFlagOnly(S, flag, exists, wfb, wfs, rs) ==
  IF S.sentinel /\ flag THEN S ELSE tryWaitForBody(S, flag, exists, wfb, wfs, rs)

makeBodyVisible(S, flag, exists, wfb, wfs, rs) ==
  IF S.sentinel THEN S ELSE tryWaitForBody(S, flag, exists, wfb, wfs, rs)

(* `try { perf = Services.performanceFor(win); perf.tick('mbv'); perf.flush(); }
   catch (e) {}` *)
perfTickPropagates(S, perf) ==
  IF perf = "lookupThrows" THEN Throw(S)
  ELSE IF perf = "tickThrows" THEN Throw(Called(S, "tick"))
  ELSE IF perf = "flushThrows" THEN Throw(Called(Called(S, "tick"), "flush"))
  ELSE Called(Called(S, "tick"), "flush")

perfTick(S, perf) ==
  IF perf = "lookupThrows" THEN S
  ELSE IF perf = "tickThrows" THEN Called(S, "tick")
  ELSE Called(Called(S, "tick"), "flush")

(* The reaction `.then(services => { ... })`. *)
thenReactionAlwaysSchedules(S, length, exists, rs, sp, perf) ==
  LET S1 == set(S, exists, rs)
      S2 == IF S1.threw THEN S1
            ELSE IF sp = "throws" THEN Throw(S1)
            ELSE Called(S1, "schedulePass")
  IN  IF S2.threw THEN S2 ELSE perfTick(S2, perf)

thenReaction(S, length, exists, rs, sp, perf) ==
  LET S1 == set(S, exists, rs)
      S2 == IF S1.threw \/ length = 0 THEN S1
            ELSE IF sp = "throws" THEN Throw(S1)
            ELSE Called(S1, "schedulePass")
  IN  IF S2.threw THEN S2 ELSE perfTick(S2, perf)

Written(S) ==
  /\ sentinel' = S.sentinel
  /\ bodyStyle' = S.bodyStyle
  /\ waiters' = S.waiters
  /\ services' = S.services
  /\ effects' = S.effects

MakeBodyVisible(flag, hasView, wfb, wfs, rs) ==
  /\ mbvCalls < MaxMbvCalls
  /\ mbvCalls' = mbvCalls + 1
  /\ IF ~hasView
     THEN /\ outcome' = "threw"
          /\ UNCHANGED <<sentinel, bodyStyle, waiters, services, effects, first>>
     ELSE LET S == makeBodyVisible(BodyState, flag, bodyExists, wfb, wfs, rs)
          IN  /\ Written(S)
              /\ outcome' = IF S.threw THEN "threw" ELSE "returned"
              /\ first' = IF first = "none" THEN "mbv" ELSE first
  /\ UNCHANGED <<bodyExists, uncaught, bavFlipped, styleVars>>

bodyAlwaysVisibleShows ==
  /\ sentinel' = TRUE
  /\ bodyStyle' = VisibleStyle
  /\ first' = IF first = "none" THEN "bav" ELSE first
  /\ bavFlipped' = (bavFlipped \/ ~sentinel)
  /\ UNCHANGED <<bodyExists, waiters, services, effects, uncaught, mbvCalls,
                 outcome, styleVars>>

bodyAlwaysVisible ==
  /\ sentinel' = TRUE
  /\ first' = IF first = "none" THEN "bav" ELSE first
  /\ bavFlipped' = (bavFlipped \/ ~sentinel)
  /\ UNCHANGED <<bodyExists, bodyStyle, waiters, services, effects, uncaught,
                 mbvCalls, outcome, styleVars>>

(* The host has parsed the body. *)
BodyAppears ==
  /\ ~bodyExists
  /\ bodyExists' = TRUE
  /\ UNCHANGED <<sentinel, bodyStyle, waiters, services, effects, uncaught,
                 mbvCalls, outcome, first, bavFlipped, styleVars>>

Without(seq, i) == SubSeq(seq, 1, i - 1) \o SubSeq(seq, i + 1, Len(seq))

(* waitForBody runs a callback it has kept; what the callback throws goes to
   the host, not to makeBodyVisible's catch. *)
WaiterRuns(i, wfs, rs) ==
  /\ bodyExists
  /\ i \in 1..Len(waiters)
  /\ LET S == bodyCallback([BodyState EXCEPT !.waiters = Without(@, i)],
                           waiters[i], bodyExists, wfs, rs)
     IN  /\ Written(S)
         /\ uncaught' = IF S.threw THEN uncaught + 1 ELSE uncaught
  /\ UNCHANGED <<bodyExists, mbvCalls, outcome, first, bavFlipped, styleVars>>

(* The promise of waitForServices(win) settles: rejected, or resolved with a
   list of `length` services. *)
ServicesSettle(k, state, length) ==
  /\ k \in 1..Len(services)
  /\ services[k].state = "pending"
  /\ services' = [services EXCEPT ![k] = [state |-> state, length |-> length]]
  /\ UNCHANGED <<sentinel, bodyExists, bodyStyle, waiters, effects, uncaught,
                 mbvCalls, outcome, first, bavFlipped, styleVars>>

(* The reaction `.catch(reason => { rethrowAsync(reason); return []; })`. *)
CatchReactionReturnsOne(k) ==
  /\ k \in 1..Len(services)
  /\ services[k].state = "rejected"
  /\ services' = [services EXCEPT ![k] = [state |-> "resolved", length |-> 1]]
  /\ effects' = [effects EXCEPT !["rethrowAsync"] = @ + 1]
  /\ UNCHANGED <<sentinel, bodyExists, bodyStyle, waiters, uncaught, mbvCalls,
                 outcome, first, bavFlipped, styleVars>>

CatchReaction(k) ==
  /\ k \in 1..Len(services)
  /\ services[k].state = "rejected"
  /\ services' = [services EXCEPT ![k] = [state |-> "resolved", length |-> 0]]
  /\ effects' = [effects EXCEPT !["rethrowAsync"] = @ + 1]
  /\ UNCHANGED <<sentinel, bodyExists, bodyStyle, waiters, uncaught, mbvCalls,
                 outcome, first, bavFlipped, styleVars>>

ThenReaction(k, rs, sp, perf) ==
  /\ k \in 1..Len(services)
  /\ services[k].state = "resolved"
  /\ LET S == thenReaction([BodyState EXCEPT !.services[k].state = "done"],
                           services[k].length, bodyExists, rs, sp, perf)
     IN  /\ Written(S)
         /\ uncaught' = IF S.threw THEN uncaught + 1 ELSE uncaught
  /\ UNCHANGED <<bodyExists, mbvCalls, outcome, first, bavFlipped, styleVars>>

------------------------------------------------------------------------------
(* The specifications.  Each takes the same actions and draws their inputs
   from the sets its claims are about. *)

(* The DOM side: install calls without a cb, no transformer, on a host that
   lists a new style element at once; every ext name, one cssText. *)
NextStyle ==
  \/ \E rt \in BOOLEAN, ext \in ExtNames :
       installStylesForDoc("a", FALSE, rt, ext, TRUE)
  \/ \E rt \in BOOLEAN, ext \in ExtNames :
       installStylesLegacy("a", FALSE, rt, ext, TRUE)

InitStyleSpec == InitStyle(InitialContents) /\ InitBody({TRUE})

SpecStyle == InitStyleSpec /\ [][NextStyle]_vars

(* Calls that pass different cssText for the same key. *)
TransformExts == {NoExt, "amp-foo"}

NextTexts ==
  \/ \E cssText \in CssTexts, rt \in BOOLEAN, ext \in TransformExts :
       installStylesForDoc(cssText, FALSE, rt, ext, TRUE)
  \/ \E cssText \in CssTexts, rt \in BOOLEAN, ext \in TransformExts :
       installStylesLegacy(cssText, FALSE, rt, ext, TRUE)

SpecTexts == InitStyleSpec /\ [][NextTexts]_vars

(* The transformer: both install functions and installCssTransformer. *)

NextTransform ==
  \/ \E rt \in BOOLEAN, ext \in TransformExts :
       installStylesForDoc("a", FALSE, rt, ext, TRUE)
  \/ \E rt \in BOOLEAN, ext \in TransformExts :
       installStylesLegacy("a", FALSE, rt, ext, TRUE)
  \/ \E t \in Transformers : installCssTransformer(t)

SpecTransform == InitStyleSpec /\ [][NextTransform]_vars

(* The readiness poll: install calls with and without a cb, the host listing
   style elements at once or later, and the intervals firing. *)
PollContents == {<<>>, <<StyleElement("amp-runtime", "", "r0")>>}

NextPoll ==
  \/ \E cb \in BOOLEAN, rt \in BOOLEAN, hostSync \in BOOLEAN :
       installStylesForDoc("a", cb, rt, NoExt, hostSync)
  \/ \E cb \in BOOLEAN, rt \in BOOLEAN, hostSync \in BOOLEAN :
       installStylesLegacy("a", cb, rt, NoExt, hostSync)
  \/ \E n \in 1..(MaxInit + MaxNew) : HostLoadsStyle(n)
  \/ \E i \in 1..MaxPollers : IntervalFires(i)

InitPoll == InitStyle(PollContents) /\ InitBody({TRUE})

SpecPoll == InitPoll /\ [][NextPoll]_vars

(* An interval set with setInterval keeps firing until it is cleared. *)
SpecPollFair == SpecPoll /\ \A i \in 1..MaxPollers : WF_vars(IntervalFires(i))

(* Both install functions on one root, every call with a cb, with and without
   a transformer, the host listing a new style element at once or not. *)
NextBoth ==
  \/ \E rt \in BOOLEAN, ext \in TransformExts, hostSync \in BOOLEAN :
       installStylesForDoc("a", TRUE, rt, ext, hostSync)
  \/ \E rt \in BOOLEAN, ext \in TransformExts, hostSync \in BOOLEAN :
       installStylesLegacy("a", TRUE, rt, ext, hostSync)
  \/ \E t \in {"p"} : installCssTransformer(t)

SpecBoth == InitPoll /\ [][NextBoth]_vars

(* Body visibility with collaborators that do not throw. *)
NextBody ==
  \/ \E flag \in BOOLEAN : MakeBodyVisible(flag, TRUE, "ok", "ok", "ok")
  \/ bodyAlwaysVisible
  \/ BodyAppears
  \/ \E i \in 1..MaxMbvCalls : WaiterRuns(i, "ok", "ok")
  \/ \E k \in 1..MaxMbvCalls, length \in {0, 1} : ServicesSettle(k, "resolved", length)
  \/ \E k \in 1..MaxMbvCalls : ServicesSettle(k, "rejected", 0)
  \/ \E k \in 1..MaxMbvCalls : CatchReaction(k)
  \/ \E k \in 1..MaxMbvCalls : ThenReaction(k, "ok", "ok", "ok")

InitBodySpec == InitStyle({<<>>}) /\ InitBody(BOOLEAN)

SpecBody == InitBodySpec /\ [][NextBody]_vars

(* The promise of waitForServices(win) settles, one way or the other. *)
ServicesSettleSomehow(k) ==
  \/ \E length \in {0, 1} : ServicesSettle(k, "resolved", length)
  \/ ServicesSettle(k, "rejected", 0)

(* The body does appear, the promise does settle, and the host does run the
   callbacks and reactions that are due. *)
SpecBodyFair ==
  /\ SpecBody
  /\ WF_vars(BodyAppears)
  /\ \A i \in 1..MaxMbvCalls : WF_vars(WaiterRuns(i, "ok", "ok"))
  /\ \A k \in 1..MaxMbvCalls : WF_vars(ServicesSettleSomehow(k))
  /\ \A k \in 1..MaxMbvCalls : WF_vars(CatchReaction(k))
  /\ \A k \in 1..MaxMbvCalls : WF_vars(ThenReaction(k, "ok", "ok", "ok"))

(* Body visibility with collaborators that may throw, and docs without a
   defaultView. *)
RenderStartedFaults == {"ok", "lookupThrows", "throws"}
PerfFaults == {"ok", "lookupThrows", "tickThrows", "flushThrows"}
Faults == {"ok", "throws"}

NextBodyFaults ==
  \/ \E flag \in BOOLEAN, hasView \in BOOLEAN, wfb \in Faults, wfs \in Faults,
        rs \in RenderStartedFaults :
       MakeBodyVisible(flag, hasView, wfb, wfs, rs)
  \/ bodyAlwaysVisible
  \/ BodyAppears
  \/ \E i \in 1..MaxMbvCalls, wfs \in Faults, rs \in RenderStartedFaults :
       WaiterRuns(i, wfs, rs)
  \/ \E k \in 1..MaxMbvCalls, length \in {0, 1} : ServicesSettle(k, "resolved", length)
  \/ \E k \in 1..MaxMbvCalls : ServicesSettle(k, "rejected", 0)
  \/ \E k \in 1..MaxMbvCalls : CatchReaction(k)
  \/ \E k \in 1..MaxMbvCalls, rs \in RenderStartedFaults, sp \in Faults,
        perf \in PerfFaults :
       ThenReaction(k, rs, sp, perf)

SpecBodyFaults == InitBodySpec /\ [][NextBodyFaults]_vars

(* Body visibility with a wait pipeline that may throw: waitForBody when the
   wait is registered, waitForServices when the callback asks for it. *)
NextBodyPipeline ==
  \/ \E flag \in BOOLEAN, wfb \in Faults, wfs \in Faults :
       MakeBodyVisible(flag, TRUE, wfb, wfs, "ok")
  \/ bodyAlwaysVisible
  \/ BodyAppears
  \/ \E i \in 1..MaxMbvCalls, wfs \in Faults : WaiterRuns(i, wfs, "ok")
  \/ \E k \in 1..MaxMbvCalls, length \in {0, 1} : ServicesSettle(k, "resolved", length)
  \/ \E k \in 1..MaxMbvCalls : ServicesSettle(k, "rejected", 0)
  \/ \E k \in 1..MaxMbvCalls : CatchReaction(k)
  \/ \E k \in 1..MaxMbvCalls : ThenReaction(k, "ok", "ok", "ok")

SpecBodyPipeline == InitBodySpec /\ [][NextBodyPipeline]_vars

(* Body visibility with a render-started notification and a performance
   service that may throw. *)
NextBodySwallow ==
  \/ \E flag \in BOOLEAN, rs \in RenderStartedFaults :
       MakeBodyVisible(flag, TRUE, "ok", "ok", rs)
  \/ bodyAlwaysVisible
  \/ BodyAppears
  \/ \E i \in 1..MaxMbvCalls, rs \in RenderStartedFaults : WaiterRuns(i, "ok", rs)
  \/ \E k \in 1..MaxMbvCalls, length \in {0, 1} : ServicesSettle(k, "resolved", length)
  \/ \E k \in 1..MaxMbvCalls : ServicesSettle(k, "rejected", 0)
  \/ \E k \in 1..MaxMbvCalls : CatchReaction(k)
  \/ \E k \in 1..MaxMbvCalls, rs \in RenderStartedFaults, perf \in PerfFaults :
       ThenReaction(k, rs, "ok", perf)

SpecBodySwallow == InitBodySpec /\ [][NextBodySwallow]_vars


------------------------------------------------------------------------------
(* Properties of style installation. *)

(* The non-null keys the calls can ask for. *)
Keys == {StyleKey(rt, ext) : rt \in BOOLEAN, ext \in ExtNames} \ {NoKey}

(* The children of the root that carry a key. *)
Carriers(key) == {n \in Range(children) : MatchesSelector(nodes[n], key)}

Position(n) == IndexOf(children, n)

IsStyle(n) == nodes[n].kind = "style"

(* The key has an element: registered in the map, or tagged under the root. *)
HasNode(key) == key \in DOMAIN styleMap \/ Carriers(key) # {}

TheNode(key) ==
  IF key \in DOMAIN styleMap THEN styleMap[key] ELSE CHOOSE n \in Carriers(key) : TRUE

(* C1: after any sequence of install calls, for every non-null key at most one
   child of the root carries the key, a registered key registers exactly that
   child, and no element is under the root twice: the first call for a key
   creates or adopts its element and the later calls create nothing. *)
C1_OneNodePerKey ==
  /\ \A key \in Keys : Cardinality(Carriers(key)) <= 1
  /\ \A key \in DOMAIN styleMap : Carriers(key) = {styleMap[key]}
  /\ \A i, j \in 1..Len(children) : i # j => children[i] # children[j]

(* A call for a key whose element an earlier call created has returned it. *)
C1_Witness ==
  /\ last.ret > ninit
  /\ ~last.created
  /\ \E key \in DOMAIN styleMap : styleMap[key] = last.ret

(* C2: once install has created or adopted the runtime style, it is the first
   style element under the root, whatever the root held to begin with. *)
C2_RuntimeFirst ==
  "amp-runtime" \in DOMAIN styleMap =>
     SelectSeq(children, IsStyle)[1] = styleMap["amp-runtime"]

(* The server rendered a runtime style after another style element. *)
RuntimeMisplacedByServer ==
  \E i, j \in 1..ninit :
     j < i /\ MatchesSelector(nodes[i], "amp-runtime") /\ nodes[j].kind = "style"

(* The runtime style is first wherever install itself places it. *)
RuntimeFirstUnlessMisplaced == RuntimeMisplacedByServer \/ C2_RuntimeFirst

(* The extension styles install has created. *)
CreatedExtensions ==
  {n \in (ninit + 1)..Len(nodes) : nodes[n].attrName = "amp-extension"}

(* C3 as stated: of two extension styles install created, the one installed
   earlier is before the one installed later among the root's children. *)
C3_ExtensionsInInsertionOrder ==
  \A a, b \in CreatedExtensions : a < b => Position(a) < Position(b)

(* C3: of two extension styles install created, the one installed later is
   before the one installed earlier among the root's children (each is put
   right after the runtime style). *)
C3_ExtensionsInReverseOrder ==
  \A a, b \in CreatedExtensions : a < b => Position(b) < Position(a)

C3_Witness ==
  \E a, b \in CreatedExtensions : a < b /\ nodes[a].attrValue # nodes[b].attrValue

(* The extension names that, without isRuntimeCss, give a null key. *)
NullKeyExts == {NoExt, "amp-custom", "amp-keyframes"}

(* C4: the key is null exactly for a non-runtime call whose ext is absent,
   'amp-custom' or 'amp-keyframes'; every such call creates an element that
   was not there, holding the text it was given, and puts it after the last
   child, the children before it and every earlier element left as they were. *)
C4_NullKeyAppends ==
  [][ /\ \A rt \in BOOLEAN, ext \in ExtNames :
           (StyleKey(rt, ext) = NoKey) <=> (~rt /\ ext \in NullKeyExts)
      /\ \A cssText \in {"a"}, ext \in NullKeyExts :
           (\/ installStylesForDoc(cssText, FALSE, FALSE, ext, TRUE)
            \/ installStylesLegacy(cssText, FALSE, FALSE, ext, TRUE))
           => /\ last'.created
              /\ last'.ret = Len(nodes) + 1
              /\ last'.ret \notin Range(children)
              /\ Len(nodes') = Len(nodes) + 1
              /\ SubSeq(nodes', 1, Len(nodes)) = nodes
              /\ nodes'[last'.ret].text = cssText
              /\ children' = Append(children, last'.ret) ]_vars

(* Two null-key calls in a row on a root with content have appended two elements. *)
C4_Witness ==
  /\ ninit >= 1
  /\ Len(nodes) = ninit + 2
  /\ last.created
  /\ nodes[ninit + 1].attrName \in NullKeyExts
  /\ nodes[ninit + 2].attrName \in NullKeyExts
  /\ children = [i \in 1..Len(nodes) |-> i]

(* C5: a call whose non-null key has an element returns that element and
   leaves the root's children and every element's text as they were,
   whatever cssText it passes. *)
C5_ExistingReturnedUnchanged ==
  [][ \A cssText \in CssTexts, rt \in BOOLEAN, ext \in TransformExts :
        LET key == StyleKey(rt, ext)
        IN  (/\ key # NoKey
             /\ HasNode(key)
             /\ \/ installStylesForDoc(cssText, FALSE, rt, ext, TRUE)
                \/ installStylesLegacy(cssText, FALSE, rt, ext, TRUE))
            => /\ last'.ret = TheNode(key)
               /\ ~last'.created
               /\ ~last'.threw
               /\ children' = children
               /\ nodes' = nodes ]_vars

(* A call has returned an element that install created with another cssText. *)
C5_Witness ==
  /\ last.ret > ninit
  /\ ~last.created
  /\ nodes[last.ret].text # last.css

(* C6 as stated: a call that found an element for its key has not invoked the
   registered transformer. *)
C6_NoTransformOnExisting ==
  (last.ret # Null /\ ~last.created) => ~last.transformed

(* C6: a call that finds an element for its non-null key leaves every
   element's text as it was; installStylesForDoc has nonetheless invoked the
   registered transformer on the cssText (it transforms before it looks the
   key up), and installStylesLegacy has not. *)
C6_TransformInvokedAndDiscarded ==
  [][ \A rt \in BOOLEAN, ext \in TransformExts :
        LET key == StyleKey(rt, ext)
        IN  (key # NoKey /\ HasNode(key))
            => /\ installStylesForDoc("a", FALSE, rt, ext, TRUE)
                    => /\ last'.transformed = (transformer # NoTransformer)
                       /\ last'.ret = TheNode(key)
                       /\ nodes' = nodes
               /\ installStylesLegacy("a", FALSE, rt, ext, TRUE)
                    => /\ ~last'.transformed
                       /\ last'.ret = TheNode(key)
                       /\ nodes' = nodes ]_vars

(* installStylesForDoc has transformed the text for a key that had an element. *)
C6_Witness ==
  /\ last.ret # Null
  /\ ~last.created
  /\ last.transformed
  /\ transformer # NoTransformer

(* C9: the cb of a call whose style was not listed at call time runs at most
   once, on a tick of its interval at which the style is listed; that tick
   clears the interval and nothing of the poller changes afterwards; and once
   the style is listed the cb does run. *)
C9_PollFiresOnceWhenListed ==
  /\ [](\A i \in 1..Len(pollers) :
          /\ pollers[i].fired <= 1
          /\ pollers[i].interval = "active" => pollers[i].fired = 0
          /\ pollers[i].interval = "cleared" =>
                pollers[i].fired = 1 /\ styleLoaded(sheets, pollers[i].style))
  /\ [][ \A i \in 1..Len(pollers) :
          /\ pollers'[i].fired # pollers[i].fired =>
                /\ pollers[i].interval = "active"
                /\ pollers[i].style \in sheets
                /\ pollers'[i].interval = "cleared"
          /\ pollers[i].interval = "cleared" => pollers'[i] = pollers[i] ]_vars
  /\ \A i \in 1..MaxPollers :
        [](( /\ i <= Len(pollers)
             /\ pollers[i].interval = "active"
             /\ pollers[i].style \in sheets )
           => <>(i <= Len(pollers) /\ pollers[i].fired = 1))

(* A poll has run its cb and cleared its interval. *)
C9_Witness ==
  \E i \in 1..Len(pollers) : pollers[i].interval = "cleared" /\ pollers[i].fired = 1

(* C10: a call with a cb whose style is listed when the call looks (a new
   element the host listed at once, or an element that was there) runs the cb
   once within the call and sets no interval, and nothing runs it again. *)
C10_LoadedAtCallTimeFiresSync ==
  /\ [](\A i \in 1..Len(pollers) :
          pollers[i].interval = "none" => pollers[i].fired = 1)
  /\ [][ /\ \A rt \in BOOLEAN, hostSync \in BOOLEAN :
             (/\ \/ installStylesForDoc("a", TRUE, rt, NoExt, hostSync)
                 \/ installStylesLegacy("a", TRUE, rt, NoExt, hostSync)
              /\ last'.ret \in sheets')
             => /\ Len(pollers') = Len(pollers) + 1
                /\ pollers'[Len(pollers')] =
                     [style |-> last'.ret, interval |-> "none", fired |-> 1]
          /\ \A i \in 1..Len(pollers) :
               pollers[i].interval = "none" => pollers'[i] = pollers[i] ]_vars

(* A call with a cb has returned an element that was there and listed, and
   has run the cb. *)
C10_Witness ==
  /\ last.cb
  /\ last.ret # Null
  /\ ~last.created
  /\ pollers # <<>>
  /\ pollers[Len(pollers)] = [style |-> last.ret, interval |-> "none", fired |-> 1]

------------------------------------------------------------------------------
(* Properties of body visibility. *)

(* Nothing is waiting: the body is there, waitForBody holds no callback and
   every promise chain has run to its end. *)
Quiescent ==
  /\ bodyExists
  /\ waiters = <<>>
  /\ \A k \in 1..Len(services) : services[k].state = "done"

(* C7: however many makeBodyVisible calls are made, with whatever flags and
   however they interleave with the body appearing and the services promise
   settling, the body's styles are set and renderStarted is called at most
   once, and exactly once when nothing is waiting any more (unless a
   bodyAlwaysVisible call turned the sentinel first). *)
C7_TransitionExactlyOnce ==
  /\ effects["setStyles"] <= 1
  /\ effects["renderStarted"] = effects["setStyles"]
  /\ (bodyStyle = VisibleStyle) <=> (effects["setStyles"] = 1)
  /\ (mbvCalls >= 1 /\ ~bavFlipped /\ Quiescent) => effects["setStyles"] = 1

(* Two calls both had to wait for the body, one of them waited for the
   services, and all is done. *)
C7_Witness ==
  /\ mbvCalls >= 2
  /\ effects["waitForBody"] = 2
  /\ effects["waitForServices"] = 1
  /\ Quiescent
  /\ ~bavFlipped
  /\ effects["setStyles"] = 1

(* C8: when bodyAlwaysVisible was called on the window before any
   makeBodyVisible, no makeBodyVisible call sets a body style, calls a
   collaborator, leaves anything waiting or throws; and a bodyAlwaysVisible
   call changes nothing but the sentinel. *)
C8_AlwaysVisibleFirst ==
  /\ [](first = "bav" =>
          /\ sentinel
          /\ bodyStyle = HiddenStyle
          /\ \A c \in Collaborators : effects[c] = 0
          /\ waiters = <<>>
          /\ services = <<>>
          /\ uncaught = 0
          /\ outcome # "threw")
  /\ [][ ((first = "none" /\ first' = "bav") \/ (~bavFlipped /\ bavFlipped'))
         => /\ sentinel'
            /\ UNCHANGED <<bodyExists, bodyStyle, waiters, services, effects,
                           uncaught, mbvCalls, outcome>> ]_vars

(* makeBodyVisible has been called, with the body there, after bodyAlwaysVisible. *)
C8_Witness ==
  /\ first = "bav"
  /\ mbvCalls >= 2
  /\ bodyExists
  /\ outcome = "returned"

------------------------------------------------------------------------------
(* Properties of the services wait. *)

(* C11: for makeBodyVisible(doc, true) whose services promise rejects, the
   catch reaction reports the rejection with rethrowAsync and resolves the
   chain with an empty list, and the then reaction on an empty list gives the
   body the visible styles and requests no schedulePass; a window has at most
   one such chain. *)
C11_RejectionStillShows ==
  /\ [](/\ Len(services) <= 1
        /\ ( /\ effects["rethrowAsync"] >= 1
             /\ \A k \in 1..Len(services) : services[k].state = "done" )
           => /\ bodyStyle = VisibleStyle
              /\ effects["setStyles"] = 1
              /\ effects["schedulePass"] = 0)
  /\ [][ \A k \in 1..Len(services) :
           /\ CatchReaction(k)
                => /\ effects'["rethrowAsync"] = effects["rethrowAsync"] + 1
                   /\ services'[k] = [state |-> "resolved", length |-> 0]
                   /\ effects'["schedulePass"] = effects["schedulePass"]
           /\ (ThenReaction(k, "ok", "ok", "ok") /\ services[k].length = 0)
                => /\ bodyStyle' = VisibleStyle
                   /\ effects'["schedulePass"] = effects["schedulePass"] ]_vars

(* The promise rejected, both reactions have run and the body is visible. *)
C11_Witness ==
  /\ effects["rethrowAsync"] = 1
  /\ effects["waitForServices"] = 1
  /\ services = <<[state |-> "done", length |-> 0]>>
  /\ bodyStyle = VisibleStyle
  /\ effects["schedulePass"] = 0

------------------------------------------------------------------------------
(* Properties of the wait pipeline's failures. *)

(* C12: when a step of the wait pipeline throws, makeBodyVisible does not
   throw to its caller, nothing is thrown to the host uncaught, and the window
   is not left with the sentinel true and the body hidden once nothing is
   waiting any more (unless bodyAlwaysVisible turned the sentinel). *)
C12_PipelineThrowStillShows ==
  /\ outcome # "threw"
  /\ uncaught = 0
  /\ (sentinel /\ ~bavFlipped /\ Quiescent) => bodyStyle = VisibleStyle

(* What the catch does achieve: a throw within a call made while the body is
   there is caught, the body is made visible, the error goes to rethrowAsync
   and the call returns. *)
PipelineThrowHandledInCall ==
  [][ \A flag \in BOOLEAN, wfb \in Faults, wfs \in Faults :
        ( /\ MakeBodyVisible(flag, TRUE, wfb, wfs, "ok")
          /\ bodyExists
          /\ ~sentinel
          /\ (wfb = "throws" \/ (flag /\ wfs = "throws")) )
        => /\ sentinel'
           /\ bodyStyle' = VisibleStyle
           /\ effects'["rethrowAsync"] = effects["rethrowAsync"] + 1
           /\ outcome' = "returned" ]_vars

(* The callback waitForBody kept has thrown out of waitForServices: the
   sentinel is set, nothing is waiting and the body is hidden. *)
DeferredThrowLeavesBodyHidden ==
  /\ uncaught = 1
  /\ sentinel
  /\ ~bavFlipped
  /\ Quiescent
  /\ bodyStyle = HiddenStyle

------------------------------------------------------------------------------
(* Properties of the missing runtime style. *)

(* The extension names that give an 'amp-extension=<name>' key. *)
ExtensionExts == ExtNames \ NullKeyExts

(* C13 as stated: every install call for an extension style on a root without
   a runtime style fails and leaves the children and the registry as they were. *)
C13_ExtensionWithoutRuntimeThrows ==
  [][ \A ext \in ExtensionExts :
        ( /\ ~HasNode("amp-runtime")
          /\ \/ installStylesForDoc("a", FALSE, FALSE, ext, TRUE)
             \/ installStylesLegacy("a", FALSE, FALSE, ext, TRUE) )
        => /\ last'.threw
           /\ children' = children
           /\ styleMap' = styleMap ]_vars

(* C13: an install call for an extension style whose key has no element, on a
   root without a runtime style, fails the assertion: it returns nothing and
   leaves the elements, the children and the registry's entries as they were
   (the registry itself is created if the root had none). *)
C13_NewExtensionWithoutRuntimeThrows ==
  [][ \A ext \in ExtensionExts :
        ( /\ ~HasNode("amp-runtime")
          /\ ~HasNode(StyleKey(FALSE, ext))
          /\ \/ installStylesForDoc("a", FALSE, FALSE, ext, TRUE)
             \/ installStylesLegacy("a", FALSE, FALSE, ext, TRUE) )
        => /\ last'.threw
           /\ last'.ret = Null
           /\ ~last'.created
           /\ nodes' = nodes
           /\ children' = children
           /\ styleMap' = styleMap
           /\ styleMapSet' ]_vars

(* An install call has failed on a root with content and nothing registered. *)
C13_Witness ==
  /\ last.threw
  /\ ninit >= 1
  /\ children = [i \in 1..ninit |-> i]
  /\ styleMap = <<>>
  /\ styleMapSet

------------------------------------------------------------------------------
(* Properties of the transformer's registration. *)

(* C14: an element installStylesForDoc creates holds cssText when the root has
   no transformer at the call and the registered transformer's output for
   cssText when it has one, and every earlier element is as it was;
   installCssTransformer makes its argument the root's transformer, whatever
   was registered, and changes no element and no child. *)
C14_CreatedTextIsTransformed ==
  [][ /\ \A rt \in BOOLEAN, ext \in TransformExts :
           (installStylesForDoc("a", FALSE, rt, ext, TRUE) /\ last'.created)
           => /\ nodes'[last'.ret].text =
                   (IF transformer = NoTransformer THEN "a"
                    ELSE transformer \o "(a)")
              /\ SubSeq(nodes', 1, Len(nodes)) = nodes
      /\ \A t \in Transformers :
           installCssTransformer(t)
           => /\ transformer' = t
              /\ nodes' = nodes
              /\ children' = children
              /\ styleMap' = styleMap ]_vars

(* An element was created under transformer p, transformer q replaced p, and
   an element was created under q; the first still holds p's output. *)
C14_Witness ==
  /\ transformer = "q"
  /\ \E i, j \in (ninit + 1)..Len(nodes) :
       /\ i < j
       /\ nodes[i].text = "p(a)"
       /\ nodes[j].text = "q(a)"

------------------------------------------------------------------------------
(* Properties of the callback kept by waitForBody. *)

(* C15: when the callback of a makeBodyVisible call that had to wait for the
   body runs with the sentinel already true, it returns at once: it sets no
   body style, asks for no services wait, calls no collaborator and throws
   nothing, whatever its flag. *)
C15_LateCallbackAborts ==
  [][ \A i \in 1..Len(waiters) :
        (WaiterRuns(i, "ok", "ok") /\ sentinel)
        => /\ waiters' = Without(waiters, i)
           /\ UNCHANGED <<sentinel, bodyStyle, services, effects, uncaught>> ]_vars

(* makeBodyVisible was called before the body was there, bodyAlwaysVisible then
   turned the sentinel, the body appeared and every kept callback has run: the
   body is as it was and only waitForBody has been called. *)
C15_Witness ==
  /\ first = "mbv"
  /\ bavFlipped
  /\ bodyExists
  /\ waiters = <<>>
  /\ effects["waitForBody"] >= 1
  /\ bodyStyle = HiddenStyle
  /\ services = <<>>
  /\ \A c \in Collaborators \ {"waitForBody"} : effects[c] = 0

------------------------------------------------------------------------------
(* Properties of the swallowed failures. *)

(* C16: whatever Services.performanceFor, perf.tick, perf.flush,
   Services.resourcesForDoc or renderStarted throw, no makeBodyVisible call
   throws, nothing reaches the host uncaught, rethrowAsync is called by the
   catch reaction of a rejected promise only, every then reaction and every
   callback that finds the sentinel false with no services to wait for leaves
   the body visible, and the body is visible once nothing is waiting any more. *)
C16_TelemetryFailuresSwallowed ==
  /\ [](/\ outcome # "threw"
        /\ uncaught = 0
        /\ effects["setStyles"] <= 1
        /\ (bodyStyle = VisibleStyle) <=> (effects["setStyles"] = 1)
        /\ (mbvCalls >= 1 /\ ~bavFlipped /\ Quiescent) => bodyStyle = VisibleStyle)
  /\ [][ /\ effects'["rethrowAsync"] # effects["rethrowAsync"]
              => \E k \in 1..Len(services) : CatchReaction(k)
         /\ \A k \in 1..Len(services), rs \in RenderStartedFaults, perf \in PerfFaults :
              ThenReaction(k, rs, "ok", perf) => bodyStyle' = VisibleStyle
         /\ \A i \in 1..Len(waiters), rs \in RenderStartedFaults :
              (WaiterRuns(i, "ok", rs) /\ ~sentinel /\ ~waiters[i])
              => bodyStyle' = VisibleStyle ]_vars

(* The resources service was not there for renderStarted and perf.tick threw:
   the body is visible, flush was not reached, and nothing was reported. *)
C16_Witness ==
  /\ bodyStyle = VisibleStyle
  /\ effects["setStyles"] = 1
  /\ effects["renderStarted"] = 0
  /\ effects["tick"] = 1
  /\ effects["flush"] = 0
  /\ effects["rethrowAsync"] = 0
  /\ uncaught = 0
  /\ Quiescent

------------------------------------------------------------------------------
(* Properties of the relayout pass. *)

(* C17: schedulePass is called only in the then reaction of a services chain
   that resolved with a non-empty list, in the reaction that has just set the
   body's styles; a chain exists only for a makeBodyVisible call with
   opt_waitForServices true (made with the body there, or its callback run
   later); so schedulePass is called at most once, never without a services
   wait, and never before the body is visible. *)
C17_SchedulePassOnlyAfterServices ==
  /\ [](/\ Len(services) = effects["waitForServices"]
        /\ effects["schedulePass"] <= effects["waitForServices"]
        /\ effects["schedulePass"] <= 1
        /\ effects["schedulePass"] = 1
             => /\ bodyStyle = VisibleStyle
                /\ effects["setStyles"] = 1
                /\ \E k \in 1..Len(services) :
                     services[k].state = "done" /\ services[k].length > 0)
  /\ [][ /\ effects'["schedulePass"] # effects["schedulePass"]
              => \E k \in 1..Len(services) :
                   /\ ThenReaction(k, "ok", "ok", "ok")
                   /\ services[k].length > 0
                   /\ effects'["setStyles"] = effects["setStyles"] + 1
                   /\ bodyStyle' = VisibleStyle
         /\ effects'["waitForServices"] # effects["waitForServices"]
              => \/ MakeBodyVisible(TRUE, TRUE, "ok", "ok", "ok")
                 \/ \E i \in 1..Len(waiters) :
                      waiters[i] /\ WaiterRuns(i, "ok", "ok") ]_vars

(* Two calls were made before the body was there, the callback of one with
   the flag ran first, its promise resolved with a service, and the pass was
   requested. *)
C17_Witness ==
  /\ effects["schedulePass"] = 1
  /\ services = <<[state |-> "done", length |-> 1]>>
  /\ bodyStyle = VisibleStyle
  /\ effects["waitForBody"] = 2

------------------------------------------------------------------------------
(* Properties of the window while it waits for the services. *)

(* A services chain has not run to its end. *)
AwaitingServices == \E k \in 1..Len(services) : services[k].state # "done"

(* C18: while a services chain is pending the sentinel is true, the body is
   there and its styles are not set; a makeBodyVisible call made then, with
   or without the flag, returns and changes nothing; a bodyAlwaysVisible call
   made then changes nothing at all; the body's style changes only in the then
   reaction of the chain, which makes it visible. *)
C18_NoOpWhileAwaitingServices ==
  /\ [](AwaitingServices
          => /\ sentinel
             /\ bodyExists
             /\ bodyStyle = HiddenStyle
             /\ effects["setStyles"] = 0)
  /\ [][ AwaitingServices
           => /\ \A flag \in BOOLEAN :
                   MakeBodyVisible(flag, TRUE, "ok", "ok", "ok")
                   => /\ outcome' = "returned"
                      /\ UNCHANGED <<sentinel, bodyExists, bodyStyle, waiters,
                                     services, effects, uncaught>>
              /\ bodyAlwaysVisible => UNCHANGED vars
              /\ bodyStyle' # bodyStyle
                   => \E k \in 1..Len(services) : ThenReaction(k, "ok", "ok", "ok")
              /\ \A k \in 1..Len(services) :
                   ThenReaction(k, "ok", "ok", "ok")
                   => bodyStyle' = VisibleStyle /\ ~AwaitingServices' ]_vars

(* A later makeBodyVisible call has returned while the promise of an earlier
   one is pending: waitForBody was called once, the body is hidden. *)
C18_Witness ==
  /\ mbvCalls >= 2
  /\ effects["waitForBody"] = 1
  /\ ~bavFlipped
  /\ outcome = "returned"
  /\ Len(services) = 1
  /\ services[1].state = "pending"
  /\ bodyStyle = HiddenStyle

------------------------------------------------------------------------------
(* Properties of the window's progress. *)

(* The window is in the Visible state for good. *)
StaysVisible ==
  [](bodyStyle = VisibleStyle
       => [](sentinel /\ bodyStyle = VisibleStyle /\ effects["setStyles"] = 1))

(* C19 as stated: once makeBodyVisible has been called on a window whose
   sentinel was false, the body eventually has the visible styles, and then
   the window stays visible. *)
C19_EventuallyVisible ==
  /\ [](first = "mbv" => <>(bodyStyle = VisibleStyle))
  /\ StaysVisible

(* C19: once makeBodyVisible has been called on a window whose sentinel was
   false, the body eventually has the visible styles unless a
   bodyAlwaysVisible call turns the sentinel first, after which the body's
   styles are never set; and a visible window stays visible. *)
C19_EventuallyVisibleUnlessAlwaysVisible ==
  /\ [](first = "mbv" => <>(bodyStyle = VisibleStyle \/ bavFlipped))
  /\ [](bavFlipped => [](bodyStyle = HiddenStyle))
  /\ StaysVisible

(* The body is visible and two more calls have come and gone. *)
C19_Witness ==
  /\ first = "mbv"
  /\ mbvCalls = 3
  /\ effects["waitForBody"] = 1
  /\ bodyStyle = VisibleStyle
  /\ sentinel
  /\ Quiescent

------------------------------------------------------------------------------
(* Properties of installStylesLegacy against installStylesForDoc. *)

(* An element but for its text. *)
Tagging(node) == [kind |-> node.kind, attrName |-> node.attrName,
                  attrValue |-> node.attrValue]

(* C20: for calls with a cb, on a root without a transformer a step is a step
   of installStylesLegacy exactly when it is the step of installStylesForDoc with
   the same arguments; with or without a transformer, an installStylesLegacy
   step returns, creates, fails, places, tags, registers and notifies as the
   installStylesForDoc call would from the same state, invokes no transformer,
   leaves the earlier elements as they were, and gives the element it creates
   cssText as its text. *)
C20_LegacyAsForDocUntransformed ==
  [][ \A rt \in BOOLEAN, ext \in TransformExts, hostSync \in BOOLEAN :
        /\ transformer = NoTransformer
             => ( installStylesLegacy("a", TRUE, rt, ext, hostSync)
                  <=> installStylesForDoc("a", TRUE, rt, ext, hostSync) )
        /\ installStylesLegacy("a", TRUE, rt, ext, hostSync)
             => LET d == insertStyleElement(nodes, children, styleMap,
                                            maybeTransform(transformer, "a").text, rt, ext)
                IN  /\ last'.ret = d.style
                    /\ last'.created = d.created
                    /\ last'.threw = d.threw
                    /\ ~last'.transformed
                    /\ children' = d.children
                    /\ styleMap' = d.styleMap
                    /\ Len(nodes') = Len(d.nodes)
                    /\ \A n \in 1..Len(nodes') : Tagging(nodes'[n]) = Tagging(d.nodes[n])
                    /\ SubSeq(nodes', 1, Len(nodes)) = nodes
                    /\ d.created => nodes'[d.style].text = "a"
                    /\ pollers' = IF d.threw THEN pollers
                                  ELSE Append(pollers, NotifyWhenLoaded(sheets', d.style))
                    /\ transformer' = transformer ]_vars

(* With transformer p on the root and an element installStylesForDoc created
   under it, installStylesLegacy has been handed that element for its key and
   has left it p's text, or has created a later element with cssText as it is. *)
C20_Witness ==
  /\ transformer = "p"
  /\ ~last.transformed
  /\ last.ret > ninit
  /\ \/ ~last.created /\ nodes[last.ret].text = "p(a)"
     \/ /\ last.created
        /\ nodes[last.ret].text = "a"
        /\ \E n \in (ninit + 1)..(last.ret - 1) : nodes[n].text = "p(a)"

====
